---- MODULE Spec2Model ----
(***************************************************************************)
(* The live attendance link of the dashboard: the course documents and the *)
(* location log kept by the backend, the Attendance Links page that toggles*)
(* a course's LinkStatus, the Courses page that edits a course, the        *)
(* location form that publishes, edits and deletes samples, and the        *)
(* CourseLinkPage viewer with its effect runs, realtime subscriptions,     *)
(* in-flight fetches, derived QR payload and rendered QR element.          *)
(***************************************************************************)
EXTENDS Integers, Sequences, FiniteSets, Bags, TLC

VARIABLES
    courseDB,      \* backend: list of course documents, in listDocuments order
    locLog,        \* backend: location documents in creation order
    adminCourses,  \* Attendance page: its local `courses` state
    adminReqs,     \* updateCourse requests sent and not yet applied by the backend
    adminResps,    \* updateCourse responses not yet received by the Attendance page
    events,        \* number of outside events so far (clicks, samples, ticks, navigation)
    programme,     \* viewer: route parameter :programme
    semester,      \* viewer: route parameter :semester (a list of characters)
    course,        \* viewer: `course` state
    location,      \* viewer: `location` state
    heldSample,    \* creation index of the sample `location` was taken from (0: none)
    loading,       \* viewer: `loading` state
    error,         \* viewer: `error` state
    currentTime,   \* viewer: `currentTime` state (number of the last tick shown)
    mounted,       \* viewer: the component is mounted
    runs,          \* viewer: the runs of the effect, one record per run
    subs,          \* realtime client: live subscriptions <<run, kind>>
    timers,        \* runs whose setInterval timer is registered
    channel,       \* realtime events sent to the viewer and not yet delivered
    requeries,     \* fetchLatestLocation calls issued by the location callback
    fired,         \* subscriptions whose callback ran in the last step
    shown,         \* viewer: the value of the QR element of the last render ('' when none)
    locSeq,        \* backend: number of location documents created so far
    locations,     \* location form: its local `locations` state, newest first
    editingLocationId, \* location form: `editingLocationId` state
    coursesPage,   \* Courses page: its local `courses` state
    selectedCourse, \* Attendance page: `selectedCourse`, the card 'Generate QR' was clicked on
    studentDB,     \* backend: the student documents, in creation order
    authUsers,     \* authentication service: the emails that have a user
    calls,         \* studentService: the createStudent and deleteStudent calls made so far
    students,      \* Students page: its local `students` state
    importing,     \* Students page: handleImportConfirm awaits its Promise.all
    attendanceDB,  \* backend: how many attendance records each student has on each date
    attendanceRecords, \* Attendance records page: `attendanceRecords`, counted the same way
    selectedDate,  \* Attendance records page: `selectedDate`
    bulkCourseId,  \* Attendance records page: `bulkCourseId`
    isBulkModalOpen, \* Attendance records page: `isBulkModalOpen`
    bulkSubmits,   \* Attendance records page: the handleBulkSubmit calls made so far
    importData,    \* Courses page: the number of valid rows of `importData`
    importModal,   \* Courses page: "closed", "open", or "awaiting" (handleImportConfirm at its await)
    addCourseCalls, \* Courses page: the addCourse calls of the imports made so far
    coursesAdded,  \* Courses page: the addCourse calls whose course setCourses has added
    holidayDB,     \* backend: the holiday documents
    holidays,      \* Holidays page: `holidays`
    holidaysPage,  \* Holidays page: "loading", "ready" or "error" (`loading`, `error`)
    holidayCalls   \* Holidays page: the requests its handlers have submitted

vars == <<courseDB, locLog, adminCourses, adminReqs, adminResps, events,
          programme, semester, course, location, heldSample, loading, error,
          currentTime, mounted, runs, subs, timers, channel, requeries, fired,
          shown, locSeq, locations, editingLocationId, coursesPage, selectedCourse,
          studentDB, authUsers, calls, students, importing,
          attendanceDB, attendanceRecords, selectedDate, bulkCourseId,
          isBulkModalOpen, bulkSubmits,
          importData, importModal, addCourseCalls, coursesAdded,
          holidayDB, holidays, holidaysPage, holidayCalls>>

backendVars == <<courseDB, locLog>>
adminVars == <<adminCourses, adminReqs, adminResps, events>>
viewVars == <<programme, semester, course, location, heldSample, loading, error,
              currentTime, mounted>>
effectVars == <<runs, subs, timers, requeries>>
formVars == <<locSeq, locations, editingLocationId>>
studentVars == <<studentDB, authUsers, calls, students, importing>>
attendanceVars == <<attendanceDB, attendanceRecords, selectedDate, bulkCourseId,
                    isBulkModalOpen, bulkSubmits>>
importVars == <<importData, importModal, addCourseCalls, coursesAdded>>
holidayVars == <<holidayDB, holidays, holidaysPage, holidayCalls>>
pagesVars == <<selectedCourse, studentVars, attendanceVars, importVars, holidayVars>>
\* The link flow: everything but the pages that have nothing to do with it.
linkVars == <<backendVars, adminVars, viewVars, effectVars, channel, fired, shown,
              formVars, coursesPage, selectedCourse>>
\* What the Students page and studentService leave alone, and what the
\* attendance records page leaves alone.
notStudentVars == <<linkVars, attendanceVars, importVars, holidayVars>>
notAttendanceVars == <<linkVars, studentVars, importVars, holidayVars>>
notImportVars == <<linkVars, studentVars, attendanceVars, holidayVars>>
notHolidayVars == <<linkVars, studentVars, attendanceVars, importVars>>

----------------------------------------------------------------------------
(* Bounds *)

\* Effect runs of the viewer, and outside events in one behaviour: toggle
\* clicks, published samples, timer ticks, route changes and the unmount.
MaxRuns == 2
MaxEvents == 3

----------------------------------------------------------------------------
(* JavaScript values *)

JsNull == [t |-> "null"]
NaN == [t |-> "nan"]
Num(n) == [t |-> "num", v |-> n]
Undefined == "undefined"
NullString == "null"

\* JavaScript truthiness of null, NaN and numbers.
Truthy(x) == /\ x # JsNull
             /\ x # NaN
             /\ x # Num(0)

Digits == <<"0", "1", "2", "3", "4", "5", "6", "7", "8", "9">>
IsDigit(ch) == \E i \in 1..10 : Digits[i] = ch
DigitValue(ch) == (CHOOSE i \in 1..10 : Digits[i] = ch) - 1
IsSpace(ch) == ch = " "

RECURSIVE SkipSpaces(_)
SkipSpaces(s) == IF s # <<>> /\ IsSpace(Head(s)) THEN SkipSpaces(Tail(s)) ELSE s

RECURSIVE LeadingDigits(_, _)
LeadingDigits(s, acc) ==
    IF s # <<>> /\ IsDigit(Head(s))
    THEN LeadingDigits(Tail(s), acc * 10 + DigitValue(Head(s)))
    ELSE acc

\* parseInt(s, 10): leading blanks, an optional sign, then the leading digits;
\* NaN when there is no digit.
ParseInt(s) ==
    LET t == SkipSpaces(s)
        neg == t # <<>> /\ Head(t) = "-"
        u == IF t # <<>> /\ Head(t) \in {"-", "+"} THEN Tail(t) ELSE t
    IN IF u = <<>> \/ ~IsDigit(Head(u))
       THEN NaN
       ELSE Num((IF neg THEN -1 ELSE 1) * LeadingDigits(u, 0))

\* String.prototype.toLowerCase on the programme names of the model.
ToLowerCase(s) ==
    CASE s = "BCA" -> "bca"
      [] s = "MCA" -> "mca"
      [] s = "XYZ" -> "xyz"
      [] OTHER -> s

\* encodeURIComponent on the programme names of the model: '%' is the one
\* character among them that is escaped.
EncodeURIComponent(s) ==
    CASE s = "50%" -> "50%25"
      [] OTHER -> s

\* decodeURIComponent: an escape is decoded, and a '%' that starts no escape
\* throws URIError.
URIError == "URIError"
DecodeURIComponent(s) ==
    CASE s = "50%25" -> "50%"
      [] s = "50%" -> URIError
      [] OTHER -> s

\* JSON.stringify of a number-valued member: NaN is written as null.
JsonNumber(x) == IF x = NaN THEN JsNull ELSE x

\* JSON.stringify of the payload object. A string is a sequence: '' is <<>>,
\* the serialised object is the one-element sequence holding the members as
\* JSON.parse returns them.
Stringify(obj) ==
    << [courseId |-> obj.courseId,
        semester |-> JsonNumber(obj.semester),
        dateTime |-> obj.dateTime,
        location |-> IF obj.location = JsNull
                     THEN JsNull
                     ELSE [latitude |-> JsonNumber(obj.location.latitude),
                           longitude |-> JsonNumber(obj.location.longitude)]] >>

EmptyString == <<>>

----------------------------------------------------------------------------
(* The viewer: derived payload and render *)

\* new Date().toISOString(): the wall clock is not part of the state; the
\* member is the ISO-8601 text of the moment of the render.
NowISOString == "ISO-8601"

\* The payload with the flag tested as `!== 'Inactive'`.
QrValueOf_NotInactive(c, sem, loc) ==
    IF c # JsNull /\ c.LinkStatus # "Inactive"
    THEN Stringify([courseId |-> c.id,
                    semester |-> ParseInt(sem),
                    dateTime |-> NowISOString,
                    location |-> IF Truthy(loc.latitude) /\ Truthy(loc.longitude)
                                 THEN [latitude |-> loc.latitude,
                                       longitude |-> loc.longitude]
                                 ELSE JsNull])
    ELSE EmptyString

\* The payload withheld when the semester parameter does not parse.
QrValueOf_RejectNaN(c, sem, loc) ==
    IF c # JsNull /\ c.LinkStatus = "Active" /\ ParseInt(sem) # NaN
    THEN Stringify([courseId |-> c.id,
                    semester |-> ParseInt(sem),
                    dateTime |-> NowISOString,
                    location |-> IF Truthy(loc.latitude) /\ Truthy(loc.longitude)
                                 THEN [latitude |-> loc.latitude,
                                       longitude |-> loc.longitude]
                                 ELSE JsNull])
    ELSE EmptyString

\* const qrValue = course && course.LinkStatus === 'Active' ? JSON.stringify({...}) : ''
QrValueOf(c, sem, loc) ==
    IF c # JsNull /\ c.LinkStatus = "Active"
    THEN Stringify([courseId |-> c.id,
                    semester |-> ParseInt(sem),
                    dateTime |-> NowISOString,
                    location |-> IF Truthy(loc.latitude) /\ Truthy(loc.longitude)
                                 THEN [latitude |-> loc.latitude,
                                       longitude |-> loc.longitude]
                                 ELSE JsNull])
    ELSE EmptyString

qrValue == QrValueOf(course, semester, location)

\* The render with the `if (error)` return placed after the course's returns.
DisplayOf_ErrorLast(m, ld, err, c) ==
    IF ~m THEN "Unmounted"
    ELSE IF ld THEN "Loading"
    ELSE IF c # JsNull /\ c.LinkStatus = "Active" THEN "ActiveDisplaying"
    ELSE IF c # JsNull THEN "InactivePlaceholder"
    ELSE IF err # NullString THEN "Error"
    ELSE "Blank"

\* The render with isLinkActive tested as `!== 'Inactive'`.
DisplayOf_NotInactive(m, ld, err, c) ==
    IF ~m THEN "Unmounted"
    ELSE IF ld THEN "Loading"
    ELSE IF err # NullString THEN "Error"
    ELSE IF c = JsNull THEN "Blank"
    ELSE IF c.LinkStatus # "Inactive" THEN "ActiveDisplaying"
    ELSE "InactivePlaceholder"

\* The render: which of the component's returns is taken.
DisplayOf(m, ld, err, c) ==
    IF ~m THEN "Unmounted"
    ELSE IF ld THEN "Loading"
    ELSE IF err # NullString THEN "Error"
    ELSE IF c = JsNull THEN "Blank"
    ELSE IF c.LinkStatus = "Active" THEN "ActiveDisplaying"
    ELSE "InactivePlaceholder"

Display == DisplayOf(mounted, loading, error, course)

\* {isLinkActive && <QRCode value={qrValue} />}
qrRendered == Display = "ActiveDisplaying"

\* The value the QR element of a render carries: qrValue when the render
\* reaches the element, '' when it returns before it or skips it.
RenderedValue(m, ld, err, c, sem, loc) ==
    IF DisplayOf(m, ld, err, c) = "ActiveDisplaying" THEN QrValueOf(c, sem, loc)
    ELSE EmptyString

\* React renders the component again after a state setter or a change of
\* the route parameters.
Rerender ==
    shown' = RenderedValue(mounted', loading', error', course', semester', location')

----------------------------------------------------------------------------
(* The backend documents *)

CourseIds == {"c1", "c2"}
LinkStatuses == {"Active", "Inactive", Undefined}

CourseDoc(id, prog, ls) == [id |-> id, Programme |-> prog, LinkStatus |-> ls]

\* useState(null) of editingLocationId: document ids count from 1, null is 0.
NullId == 0

LocationDoc(id, loc) == [id |-> id, Latitude |-> loc.Latitude, Longitude |-> loc.Longitude]

HasDoc(docs, id) == \E i \in 1..Len(docs) : docs[i].id = id

WithoutDoc(docs, id) == SelectSeq(docs, LAMBDA d : d.id # id)

\* courses.find(c => c.Programme.toLowerCase() === decodedProgramme): the first
\* match in list order, or null.
RECURSIVE FindCourse(_, _)
FindCourse(docs, decoded) ==
    IF docs = <<>> THEN JsNull
    ELSE IF ToLowerCase(Head(docs).Programme) = decoded THEN Head(docs)
    ELSE FindCourse(Tail(docs), decoded)

\* decodeURIComponent(programme || '').toLowerCase()
DecodedProgramme(p) == ToLowerCase(DecodeURIComponent(p))

\* What the run keeps of the fetched list: the result of the find, or the
\* exception decodeURIComponent throws before it.
Thrown == [t |-> "thrown"]
FoundCourse(docs, p) ==
    IF DecodeURIComponent(p) = URIError THEN Thrown
    ELSE FindCourse(docs, DecodedProgramme(p))

DocById(docs, id) == docs[CHOOSE i \in 1..Len(docs) : docs[i].id = id]

ReplaceDoc(docs, id, data) ==
    [i \in 1..Len(docs) |-> IF docs[i].id = id THEN data ELSE docs[i]]

RemoveAt(s, i) == [j \in 1..(Len(s) - 1) |-> IF j < i THEN s[j] ELSE s[j + 1]]

\* response.documents.length > 0 ? response.documents[0] : null, as the
\* creation index of the newest sample (0: null).
LatestLocation == Len(locLog)

SampleLocation(i) == [latitude |-> locLog[i].Latitude, longitude |-> locLog[i].Longitude]

----------------------------------------------------------------------------
(* Realtime *)

CourseSubs(id) == {s \in subs : s[2] = "course" /\ runs[s[1]].foundId = id}
LocationSubs == {s \in subs : s[2] = "location"}

\* An event is sent to the viewer's socket when one of its subscriptions
\* listens on the event's channel.
EmitCourseUpdate(doc) ==
    IF CourseSubs(doc.id) # {}
    THEN Append(channel, [type |-> "course.update", id |-> doc.id, payload |-> doc])
    ELSE channel

EmitLocationCreate ==
    IF LocationSubs # {}
    THEN Append(channel, [type |-> "location.create", id |-> "", payload |-> JsNull])
    ELSE channel

----------------------------------------------------------------------------
(* Initial state: the backend holds two courses, the Attendance page has     *)
(* loaded them, and a viewer has just mounted: its first effect run has      *)
(* called initializeData (setLoading(true), fetchCourses sent) and           *)
(* registered the clock timer.                                               *)

InitialProgrammes == {"BCA", "XYZ"}
RouteProgrammes == {"mca", "XYZ"}
LocInputs == {[Latitude |-> Num(0), Longitude |-> Num(77)],
              [Latitude |-> Num(26), Longitude |-> Num(91)]}

\* One run of the effect: the programme its closure captured, where
\* initializeData stands, the answers in flight to it (foundCourse is the
\* result of the find on the fetched list, latest the fetched sample), the
\* course its subscription names, whether the find returned nothing, and the
\* closure's unsubscribe variables.
NewRun(p) == [programme |-> p, pc |-> "fetchCourses", foundCourse |-> JsNull,
              latest |-> 0, foundId |-> "", notFound |-> FALSE,
              unsubscribeCourse |-> FALSE, unsubscribeLocation |-> FALSE,
              cleaned |-> FALSE]

InitViewer(p) ==
    /\ programme = p
    /\ semester = <<"3">>
    /\ course = JsNull
    /\ location = [latitude |-> JsNull, longitude |-> JsNull]
    /\ heldSample = 0
    /\ loading = TRUE
    /\ error = NullString
    /\ currentTime = 0
    /\ mounted = TRUE
    /\ runs = <<NewRun(p)>>
    /\ subs = {}
    /\ timers = {1}
    /\ channel = <<>>
    /\ requeries = [pending |-> 0, served |-> EmptyBag]
    /\ fired = {}
    /\ shown = EmptyString

\* The location form has loaded the (empty) log and edits nothing.
FormInit ==
    /\ locSeq = 0
    /\ locations = <<>>
    /\ editingLocationId = NullId

\* The active students of the course the bulk add is made for, and the days
\* the calendar offers.
BulkStudents == {"s1", "s2"}
Dates == {1, 2}
\* useState('') of bulkCourseId, and the course chosen in the modal.
NoCourseId == ""
BulkCourse == "c1"

\* A holiday document; dates are day numbers.
HolidayDoc(id, from, to) == [id |-> id, Date_from |-> from, Date_to |-> to]

StudentDoc(id, data) == [id |-> id, ABC_ID |-> data.ABC_ID, Email |-> data.Email]

\* The other pages of the dashboard as they are before anybody uses them: one
\* student is enrolled and has a user.
PagesInit ==
    /\ selectedCourse = JsNull
    /\ studentDB = <<StudentDoc(0, [ABC_ID |-> 1, Email |-> "a@x"])>>
    /\ authUsers = {"a@x"}
    /\ calls = <<>>
    /\ students = studentDB
    /\ importing = FALSE
    /\ attendanceDB = [k \in BulkStudents \X Dates |-> 0]
    /\ attendanceRecords = attendanceDB
    /\ selectedDate = 1
    /\ bulkCourseId = NoCourseId
    /\ isBulkModalOpen = FALSE
    /\ bulkSubmits = <<>>
    /\ importData = 0
    /\ importModal = "closed"
    /\ addCourseCalls = <<>>
    /\ coursesAdded = {}
    /\ holidayDB = <<HolidayDoc(1, 2, 2), HolidayDoc(2, 1, 2)>>
    /\ holidays = <<>>
    /\ holidaysPage = "loading"
    /\ holidayCalls = <<>>

Init ==
    /\ PagesInit
    /\ courseDB = <<CourseDoc("c1", "BCA", "Inactive"), CourseDoc("c2", "MCA", Undefined)>>
    /\ locLog = <<>>
    /\ adminCourses = courseDB
    /\ adminReqs = <<>>
    /\ adminResps = <<>>
    /\ events = 0
    /\ FormInit
    /\ coursesPage = courseDB
    /\ \E p \in InitialProgrammes : InitViewer(p)

----------------------------------------------------------------------------
(* Attendance Links page *)

\* handleToggleLinkStatus up to its await: the new status is the opposite of
\* the card's, and the whole local course object is sent with it.
AdminToggleClick(id) ==
    /\ events < MaxEvents
    /\ LET card == DocById(adminCourses, id)
           newStatus == IF card.LinkStatus = "Active" THEN "Inactive" ELSE "Active"
           fullCourseData == [card EXCEPT !.LinkStatus = newStatus]
       IN adminReqs' = Append(adminReqs, [id |-> id, data |-> fullCourseData])
    /\ events' = events + 1
    /\ fired' = {}
    /\ UNCHANGED <<backendVars, adminCourses, adminResps, viewVars, effectVars, channel, shown, formVars, coursesPage,
                   pagesVars>>

\* updateCourse written as a toggle of the persisted flag.
ServerUpdateCourse_Flip(i) ==
    /\ i \in 1..Len(adminReqs)
    /\ LET req == adminReqs[i]
           held == DocById(courseDB, req.id).LinkStatus
           flipped == [req.data EXCEPT
                          !.LinkStatus = IF held = "Active" THEN "Inactive" ELSE "Active"]
       IN /\ courseDB' = ReplaceDoc(courseDB, req.id, flipped)
          /\ channel' = EmitCourseUpdate(flipped)
          /\ adminResps' = Append(adminResps, [id |-> req.id, updated |-> flipped])
    /\ adminReqs' = RemoveAt(adminReqs, i)
    /\ fired' = {}
    /\ UNCHANGED <<locLog, adminCourses, events, viewVars, effectVars, shown, formVars, coursesPage,
                   pagesVars>>

\* updateCourse on the backend: the document takes the submitted fields, the
\* update event goes to the subscribers and the updated document is returned.
ServerUpdateCourse(i) ==
    /\ i \in 1..Len(adminReqs)
    /\ LET req == adminReqs[i]
       IN /\ courseDB' = ReplaceDoc(courseDB, req.id, req.data)
          /\ channel' = EmitCourseUpdate(req.data)
          /\ adminResps' = Append(adminResps, [id |-> req.id, updated |-> req.data])
    /\ adminReqs' = RemoveAt(adminReqs, i)
    /\ fired' = {}
    /\ UNCHANGED <<locLog, adminCourses, events, viewVars, effectVars, shown, formVars, coursesPage,
                   pagesVars>>

\* handleToggleLinkStatus after its await:
\* setCourses(prev => prev.map(c => c.$id === course.$id ? {...c, ...updated} : c))
AdminToggleDone(i) ==
    /\ i \in 1..Len(adminResps)
    /\ adminCourses' = ReplaceDoc(adminCourses, adminResps[i].id, adminResps[i].updated)
    /\ adminResps' = RemoveAt(adminResps, i)
    /\ fired' = {}
    /\ UNCHANGED <<backendVars, adminReqs, events, viewVars, effectVars, channel, shown, formVars, coursesPage,
                   pagesVars>>

----------------------------------------------------------------------------
(* Location form *)

\* handleSubmit with setEditingLocationId(null) left out after an update:
\* the form stays in edit mode, and the next submit overwrites again.
PublishLocation_StaysEditing(loc) ==
    /\ events < MaxEvents
    /\ events' = events + 1
    /\ IF editingLocationId # NullId
       THEN IF HasDoc(locLog, editingLocationId)
            THEN LET updated == LocationDoc(editingLocationId, loc)
                 IN /\ locLog' = ReplaceDoc(locLog, editingLocationId, updated)
                    /\ locations' = ReplaceDoc(locations, editingLocationId, updated)
                    /\ UNCHANGED <<editingLocationId, locSeq, channel>>
            ELSE UNCHANGED <<locLog, locations, editingLocationId, locSeq, channel>>
       ELSE LET newLocation == LocationDoc(locSeq + 1, loc)
            IN /\ locLog' = Append(locLog, newLocation)
               /\ locations' = <<newLocation>> \o locations
               /\ locSeq' = locSeq + 1
               /\ channel' = EmitLocationCreate
               /\ editingLocationId' = NullId
    /\ fired' = {}
    /\ UNCHANGED <<courseDB, adminCourses, adminReqs, adminResps, viewVars, effectVars,
                   shown, coursesPage,
                   pagesVars>>

\* LocationManager.handleSubmit. With no location being edited addLocation
\* creates a new document and the creation event goes to the subscribers;
\* with one, updateLocation overwrites that document's coordinates (and
\* rejects when the document is gone: the catch block leaves the form as it
\* is).
PublishLocation(loc) ==
    /\ events < MaxEvents
    /\ events' = events + 1
    /\ IF editingLocationId # NullId
       THEN IF HasDoc(locLog, editingLocationId)
            THEN LET updated == LocationDoc(editingLocationId, loc)
                 IN /\ locLog' = ReplaceDoc(locLog, editingLocationId, updated)
                    /\ locations' = ReplaceDoc(locations, editingLocationId, updated)
                    /\ editingLocationId' = NullId
                    /\ UNCHANGED <<locSeq, channel>>
            ELSE UNCHANGED <<locLog, locations, editingLocationId, locSeq, channel>>
       ELSE LET newLocation == LocationDoc(locSeq + 1, loc)
            IN /\ locLog' = Append(locLog, newLocation)
               /\ locations' = <<newLocation>> \o locations
               /\ locSeq' = locSeq + 1
               /\ channel' = EmitLocationCreate
               /\ editingLocationId' = NullId
    /\ fired' = {}
    /\ UNCHANGED <<courseDB, adminCourses, adminReqs, adminResps, viewVars, effectVars,
                   shown, coursesPage,
                   pagesVars>>

\* LocationManager.handleEdit: the row's location becomes the one the form edits.
LocationEdit(id) ==
    /\ HasDoc(locations, id)
    /\ editingLocationId # id
    /\ editingLocationId' = id
    /\ fired' = {}
    /\ UNCHANGED <<backendVars, adminVars, viewVars, effectVars, channel, shown,
                   locSeq, locations, coursesPage,
                   pagesVars>>

\* LocationManager.handleCancelEdit
LocationCancelEdit ==
    /\ editingLocationId # NullId
    /\ editingLocationId' = NullId
    /\ fired' = {}
    /\ UNCHANGED <<backendVars, adminVars, viewVars, effectVars, channel, shown,
                   locSeq, locations, coursesPage,
                   pagesVars>>

\* LocationManager.handleDelete, the confirm accepted: deleteLocation removes
\* the document, then the row leaves the list.
LocationDelete(id) ==
    /\ events < MaxEvents
    /\ events' = events + 1
    /\ HasDoc(locations, id)
    /\ IF HasDoc(locLog, id)
       THEN /\ locLog' = WithoutDoc(locLog, id)
            /\ locations' = WithoutDoc(locations, id)
       ELSE UNCHANGED <<locLog, locations>>
    /\ fired' = {}
    /\ UNCHANGED <<courseDB, adminCourses, adminReqs, adminResps, viewVars, effectVars,
                   channel, shown, locSeq, editingLocationId, coursesPage,
                   pagesVars>>

----------------------------------------------------------------------------
(* CourseLinkPage: initializeData, one action per resumption *)

\* The two texts setError is called with.
NotFoundMessage == "The requested course could not be found."
FetchFailedMessage == "Failed to load course data. Please try again later."

\* A state setter of an unmounted component changes nothing.
SetState(new, old) == IF mounted THEN new ELSE old

\* The backend answers fetchCourses with the documents it holds now; the run
\* keeps of the answer what its continuation reads, the result of the find.
ServeFetchCourses(r) ==
    /\ r \in 1..Len(runs)
    /\ runs[r].pc = "fetchCourses"
    /\ runs' = [runs EXCEPT ![r].pc = "coursesInFlight",
                            ![r].foundCourse = FoundCourse(courseDB, runs[r].programme)]
    /\ fired' = {}
    /\ UNCHANGED <<backendVars, adminVars, viewVars, subs, timers, requeries, channel, shown, formVars, coursesPage,
                   pagesVars>>

\* The continuation of `await fetchCourses()` up to `await fetchLatestLocation()`,
\* or through the catch and finally blocks when decodeURIComponent throws.
ResolveFetchCourses(r) ==
    /\ r \in 1..Len(runs)
    /\ runs[r].pc = "coursesInFlight"
    /\ LET foundCourse == runs[r].foundCourse
       IN IF foundCourse = Thrown
          THEN /\ error' = SetState(FetchFailedMessage, error)
               /\ loading' = SetState(FALSE, loading)
               /\ runs' = [runs EXCEPT ![r].pc = "done", ![r].foundCourse = JsNull]
               /\ UNCHANGED <<course, subs>>
          ELSE IF foundCourse # JsNull
          THEN /\ course' = SetState(foundCourse, course)
               /\ subs' = subs \cup {<<r, "course">>}
               /\ runs' = [runs EXCEPT ![r].pc = "fetchLocation",
                                       ![r].foundCourse = JsNull,
                                       ![r].foundId = foundCourse.id,
                                       ![r].unsubscribeCourse = TRUE]
               /\ UNCHANGED <<error, loading>>
          ELSE /\ error' = SetState(NotFoundMessage, error)
               /\ runs' = [runs EXCEPT ![r].pc = "fetchLocation",
                                       ![r].notFound = TRUE]
               /\ UNCHANGED <<course, subs, loading>>
    /\ fired' = {}
    /\ UNCHANGED <<backendVars, adminVars, programme, semester, location, heldSample,
                   currentTime, mounted, timers, requeries, channel, formVars, coursesPage,
                   pagesVars>>
    /\ Rerender

\* The backend answers the initial fetchLatestLocation with its newest sample.
ServeFetchLocation(r) ==
    /\ r \in 1..Len(runs)
    /\ runs[r].pc = "fetchLocation"
    /\ runs' = [runs EXCEPT ![r].pc = "locationInFlight", ![r].latest = LatestLocation]
    /\ fired' = {}
    /\ UNCHANGED <<backendVars, adminVars, viewVars, subs, timers, requeries, channel, shown, formVars, coursesPage,
                   pagesVars>>

\* The continuation of `await fetchLatestLocation()` to the end of
\* initializeData, the finally block included.
ResolveFetchLocation(r) ==
    /\ r \in 1..Len(runs)
    /\ runs[r].pc = "locationInFlight"
    /\ LET latestLocation == runs[r].latest
       IN IF latestLocation # 0
          THEN /\ location' = SetState(SampleLocation(latestLocation), location)
               /\ heldSample' = SetState(latestLocation, heldSample)
          ELSE UNCHANGED <<location, heldSample>>
    /\ subs' = subs \cup {<<r, "location">>}
    /\ runs' = [runs EXCEPT ![r].pc = "done", ![r].latest = 0,
                            ![r].unsubscribeLocation = TRUE]
    /\ loading' = SetState(FALSE, loading)
    /\ fired' = {}
    /\ UNCHANGED <<backendVars, adminVars, programme, semester, course, error,
                   currentTime, mounted, timers, requeries, channel, formVars, coursesPage,
                   pagesVars>>
    /\ Rerender

\* setLoading(false) written as the last statement of the try block instead
\* of a finally block: a rejected fetch skips it.
RejectFetch_NoFinally(r) ==
    /\ r \in 1..Len(runs)
    /\ runs[r].pc \in {"fetchCourses", "fetchLocation"}
    /\ error' = SetState(FetchFailedMessage, error)
    /\ runs' = [runs EXCEPT ![r].pc = "done"]
    /\ fired' = {}
    /\ UNCHANGED <<backendVars, adminVars, programme, semester, course, location,
                   heldSample, loading, currentTime, mounted, subs, timers, requeries,
                   channel, formVars, coursesPage, pagesVars>>
    /\ Rerender

\* The catch block only logging the failure: no setError.
RejectFetch_LogOnly(r) ==
    /\ r \in 1..Len(runs)
    /\ runs[r].pc \in {"fetchCourses", "fetchLocation"}
    /\ error' = error
    /\ loading' = SetState(FALSE, loading)
    /\ runs' = [runs EXCEPT ![r].pc = "done"]
    /\ fired' = {}
    /\ UNCHANGED <<backendVars, adminVars, programme, semester, course, location,
                   heldSample, currentTime, mounted, subs, timers, requeries, channel, formVars, coursesPage,
                   pagesVars>>
    /\ Rerender

\* Either initial fetch rejects: the catch block, then the finally block.
RejectFetch(r) ==
    /\ r \in 1..Len(runs)
    /\ runs[r].pc \in {"fetchCourses", "fetchLocation"}
    /\ error' = SetState(FetchFailedMessage, error)
    /\ loading' = SetState(FALSE, loading)
    /\ runs' = [runs EXCEPT ![r].pc = "done"]
    /\ fired' = {}
    /\ UNCHANGED <<backendVars, adminVars, programme, semester, course, location,
                   heldSample, currentTime, mounted, subs, timers, requeries, channel, formVars, coursesPage,
                   pagesVars>>
    /\ Rerender

----------------------------------------------------------------------------
(* CourseLinkPage: subscription callbacks, timer, effect cleanup and re-run *)

\* The re-queries in flight: how many the backend has not answered yet, and
\* the bag of the answers on their way back (each the creation index of the
\* sample the backend found newest, 0 for none).
AnswerOf(n) == SetToBag({n})

\* The socket delivers its oldest event to every live subscription on the
\* event's channel. The course callback stores the event's payload; the
\* location callback calls fetchLatestLocation.
DeliverEvent ==
    /\ channel # <<>>
    /\ LET e == Head(channel)
       IN IF e.type = "course.update"
          THEN /\ fired' = CourseSubs(e.id)
               /\ course' = IF CourseSubs(e.id) # {}
                            THEN SetState(e.payload, course)
                            ELSE course
               /\ UNCHANGED requeries
          ELSE /\ fired' = LocationSubs
               /\ requeries' = [requeries EXCEPT
                                   !.pending = @ + Cardinality(LocationSubs)]
               /\ UNCHANGED course
    /\ channel' = Tail(channel)
    /\ UNCHANGED <<backendVars, adminVars, programme, semester, location, heldSample,
                   loading, error, currentTime, mounted, runs, subs, timers, formVars, coursesPage,
                   pagesVars>>
    /\ Rerender

\* The backend answers a re-query with its newest sample.
ServeRequery ==
    /\ requeries.pending > 0
    /\ requeries' = [pending |-> requeries.pending - 1,
                     served |-> requeries.served (+) AnswerOf(LatestLocation)]
    /\ fired' = {}
    /\ UNCHANGED <<backendVars, adminVars, viewVars, runs, subs, timers, channel, shown, formVars, coursesPage,
                   pagesVars>>

\* fetchLatestLocation().then(newLocation => { if (newLocation) setLocation(...) })
ResolveRequery(newLocation) ==
    /\ BagIn(newLocation, requeries.served)
    /\ IF newLocation # 0
       THEN /\ location' = SetState(SampleLocation(newLocation), location)
            /\ heldSample' = SetState(newLocation, heldSample)
       ELSE UNCHANGED <<location, heldSample>>
    /\ requeries' = [requeries EXCEPT !.served = @ (-) AnswerOf(newLocation)]
    /\ fired' = {}
    /\ UNCHANGED <<backendVars, adminVars, programme, semester, course, loading, error,
                   currentTime, mounted, runs, subs, timers, channel, formVars, coursesPage,
                   pagesVars>>
    /\ Rerender

\* A re-query rejects: the promise has no rejection handler, nothing is set.
RejectRequery ==
    /\ requeries.pending > 0
    /\ requeries' = [requeries EXCEPT !.pending = @ - 1]
    /\ fired' = {}
    /\ UNCHANGED <<backendVars, adminVars, viewVars, runs, subs, timers, channel, shown, formVars, coursesPage,
                   pagesVars>>

\* The setInterval callback.
TimerTick(r) ==
    /\ r \in timers
    /\ mounted
    /\ events < MaxEvents
    /\ events' = events + 1
    /\ currentTime' = currentTime + 1
    /\ fired' = {}
    /\ UNCHANGED <<backendVars, adminCourses, adminReqs, adminResps, programme, semester, course, location,
                   heldSample, loading, error, mounted, effectVars, channel, formVars, coursesPage,
                   pagesVars>>
    /\ Rerender

\* The cleanup function of the latest effect run r, as it finds the run's
\* unsubscribeCourse and unsubscribeLocation at that moment.
SubsAfterCleanup(r) ==
    (subs \ (IF runs[r].unsubscribeCourse THEN {<<r, "course">>} ELSE {}))
         \ (IF runs[r].unsubscribeLocation THEN {<<r, "location">>} ELSE {})

TimersAfterCleanup(r) == timers \ {r}

\* The programme route parameter changes: React runs the cleanup of the
\* previous run, then the effect again (initializeData up to its first await,
\* and setInterval).
RouteChange(p) ==
    /\ mounted
    /\ Len(runs) < MaxRuns
    /\ events < MaxEvents
    /\ events' = events + 1
    /\ p # programme
    /\ LET r == Len(runs)
       IN /\ subs' = SubsAfterCleanup(r)
          /\ timers' = TimersAfterCleanup(r) \cup {r + 1}
          /\ runs' = Append([runs EXCEPT ![r].cleaned = TRUE], NewRun(p))
    /\ programme' = p
    /\ loading' = TRUE
    /\ fired' = {}
    /\ UNCHANGED <<backendVars, adminCourses, adminReqs, adminResps, semester, course, location, heldSample,
                   error, currentTime, mounted, requeries, channel, formVars, coursesPage,
                   pagesVars>>
    /\ Rerender

\* The component unmounts: React runs the cleanup of the latest run.
Unmount ==
    /\ mounted
    /\ LET r == Len(runs)
       IN /\ subs' = SubsAfterCleanup(r)
          /\ timers' = TimersAfterCleanup(r)
          /\ runs' = [runs EXCEPT ![r].cleaned = TRUE]
    /\ events < MaxEvents
    /\ events' = events + 1
    /\ mounted' = FALSE
    /\ fired' = {}
    /\ UNCHANGED <<backendVars, adminCourses, adminReqs, adminResps, programme, semester, course, location,
                   heldSample, loading, error, currentTime, requeries, channel, formVars, coursesPage,
                   pagesVars>>
    /\ Rerender

----------------------------------------------------------------------------

Next ==
    \/ \E id \in CourseIds : AdminToggleClick(id)
    \/ \E i \in 1..MaxEvents : ServerUpdateCourse(i)
    \/ \E i \in 1..MaxEvents : AdminToggleDone(i)
    \/ \E loc \in LocInputs : PublishLocation(loc)
    \/ \E r \in 1..MaxRuns : ServeFetchCourses(r)
    \/ \E r \in 1..MaxRuns : ResolveFetchCourses(r)
    \/ \E r \in 1..MaxRuns : ServeFetchLocation(r)
    \/ \E r \in 1..MaxRuns : ResolveFetchLocation(r)
    \/ \E r \in 1..MaxRuns : RejectFetch(r)
    \/ DeliverEvent
    \/ ServeRequery
    \/ \E n \in 0..MaxEvents : ResolveRequery(n)
    \/ RejectRequery
    \/ \E r \in 1..MaxRuns : TimerTick(r)
    \/ \E p \in RouteProgrammes : RouteChange(p)
    \/ Unmount

Spec == Init /\ [][Next]_vars

\* The event loop delivers every message the socket has received.
LiveSpec == Spec /\ WF_vars(DeliverEvent)

----------------------------------------------------------------------------
(* Two admin sessions on the course documents: the Attendance Links page   *)
(* toggling links and the Courses page editing a course's other fields     *)

FullCourseDoc(id, prog, ls, dur, st) ==
    [id |-> id, Programme |-> prog, LinkStatus |-> ls, Duration |-> dur, Status |-> st]

Durations == {24, 36}
Statuses == {"Active", "Inactive"}

\* Both pages have loaded the course list; nobody views a link.
AdminInit ==
    /\ PagesInit
    /\ courseDB = <<FullCourseDoc("c1", "BCA", "Inactive", 36, "Active"),
                    FullCourseDoc("c2", "MCA", Undefined, 24, "Active")>>
    /\ locLog = <<>>
    /\ adminCourses = courseDB
    /\ adminReqs = <<>>
    /\ adminResps = <<>>
    /\ events = 0
    /\ FormInit
    /\ coursesPage = courseDB
    /\ InitViewer("BCA")

\* Courses page: openModal('edit', course) puts the page's copy of the course
\* in the form, the admin sets Duration and Status, and handleFormSubmit
\* sends the whole form with updateCourse and stores the answer.
CourseEditSubmit(id, dur, st) ==
    /\ events < MaxEvents
    /\ events' = events + 1
    /\ LET formData == DocById(coursesPage, id)
           dataToSubmit == [formData EXCEPT !.Duration = dur, !.Status = st]
       IN /\ courseDB' = ReplaceDoc(courseDB, id, dataToSubmit)
          /\ coursesPage' = ReplaceDoc(coursesPage, id, dataToSubmit)
          /\ channel' = EmitCourseUpdate(dataToSubmit)
    /\ fired' = {}
    /\ UNCHANGED <<locLog, adminCourses, adminReqs, adminResps, viewVars, effectVars,
                   shown, formVars,
                   pagesVars>>

AdminNext ==
    \/ \E id \in CourseIds : AdminToggleClick(id)
    \/ \E i \in 1..MaxEvents : ServerUpdateCourse(i)
    \/ \E i \in 1..MaxEvents : AdminToggleDone(i)
    \/ \E id \in CourseIds, dur \in Durations, st \in Statuses : CourseEditSubmit(id, dur, st)

AdminSpec == AdminInit /\ [][AdminNext]_vars

----------------------------------------------------------------------------
(* The viewer's initial load alone, with route changes and the unmount,    *)
(* every fetch of a run being answered or rejected and every continuation  *)
(* being run in the end                                                    *)

LoadNext ==
    \/ \E r \in 1..MaxRuns : ServeFetchCourses(r)
    \/ \E r \in 1..MaxRuns : ResolveFetchCourses(r)
    \/ \E r \in 1..MaxRuns : ServeFetchLocation(r)
    \/ \E r \in 1..MaxRuns : ResolveFetchLocation(r)
    \/ \E r \in 1..MaxRuns : RejectFetch(r)
    \/ \E p \in RouteProgrammes : RouteChange(p)
    \/ Unmount

\* One more step of run r's initializeData.
FetchSettles(r) ==
    \/ ServeFetchCourses(r)
    \/ ResolveFetchCourses(r)
    \/ ServeFetchLocation(r)
    \/ ResolveFetchLocation(r)
    \/ RejectFetch(r)

LoadSpec ==
    /\ Init
    /\ [][LoadNext]_vars
    /\ \A r \in 1..MaxRuns : WF_vars(FetchSettles(r))

----------------------------------------------------------------------------
(* From a card of the Attendance Links page to the viewer of its link, for *)
(* every list of two courses over the names below                          *)

LinkNames == {"BCA", "bca", "MCA", "50%"}
LinkSemesters == {<<"3">>}

\* No link page is open yet.
ClosedViewer ==
    /\ programme = ""
    /\ semester = <<>>
    /\ course = JsNull
    /\ location = [latitude |-> JsNull, longitude |-> JsNull]
    /\ heldSample = 0
    /\ loading = TRUE
    /\ error = NullString
    /\ currentTime = 0
    /\ mounted = FALSE
    /\ runs = <<>>
    /\ subs = {}
    /\ timers = {}
    /\ channel = <<>>
    /\ requeries = [pending |-> 0, served |-> EmptyBag]
    /\ fired = {}
    /\ shown = EmptyString

LinkInit ==
    /\ PagesInit
    /\ courseDB \in {<<CourseDoc("c1", n1, "Active"), CourseDoc("c2", n2, "Inactive")>> :
                        n1 \in LinkNames, n2 \in LinkNames}
    /\ locLog = <<>>
    /\ adminCourses = courseDB
    /\ adminReqs = <<>>
    /\ adminResps = <<>>
    /\ events = 0
    /\ FormInit
    /\ coursesPage = courseDB
    /\ ClosedViewer

\* The router hands useParams the decoded path segment.
RouteParam(segment) == DecodeURIComponent(segment)

\* 'Generate QR' on card i (handleOpenSemesterModal), a semester chosen, and
\* handleConfirmSemester: navigate to the link, where CourseLinkPage mounts
\* and its effect runs for the first time.
OpenLink(i, sem) ==
    /\ selectedCourse = JsNull
    /\ i \in 1..Len(adminCourses)
    /\ selectedCourse' = adminCourses[i]
    /\ programme' = RouteParam(EncodeURIComponent(adminCourses[i].Programme))
    /\ semester' = sem
    /\ mounted' = TRUE
    /\ runs' = <<NewRun(programme')>>
    /\ timers' = {1}
    /\ fired' = {}
    /\ UNCHANGED <<backendVars, adminVars, course, location, heldSample, loading, error,
                   currentTime, subs, channel, requeries, formVars, coursesPage,
                   studentVars, attendanceVars, importVars, holidayVars>>
    /\ Rerender

LinkNext ==
    \/ \E i \in 1..2, sem \in LinkSemesters : OpenLink(i, sem)
    \/ \E r \in 1..MaxRuns : ServeFetchCourses(r)
    \/ \E r \in 1..MaxRuns : ResolveFetchCourses(r)
    \/ \E r \in 1..MaxRuns : ServeFetchLocation(r)
    \/ \E r \in 1..MaxRuns : ResolveFetchLocation(r)

LinkSpec == LinkInit /\ [][LinkNext]_vars

----------------------------------------------------------------------------
(* The location form alone: publishing, editing and deleting samples *)

FormNext ==
    \/ \E loc \in LocInputs : PublishLocation(loc)
    \/ \E id \in 1..MaxEvents : LocationEdit(id)
    \/ LocationCancelEdit
    \/ \E id \in 1..MaxEvents : LocationDelete(id)

FormSpec == Init /\ [][FormNext]_vars

----------------------------------------------------------------------------
(* The payload as a function of the viewer's state: every course object,   *)
(* location, semester parameter, loading flag and error the state can hold *)

TokenCourses == {JsNull} \cup
                {CourseDoc("c1", "BCA", ls) : ls \in LinkStatuses \cup {"active"}}
TokenCoords == {JsNull, Num(0), Num(26)}
TokenLocations == {[latitude |-> la, longitude |-> lo] : la \in TokenCoords, lo \in TokenCoords}
SemesterParams == {<<"3">>, <<"a">>, <<"4", "x">>}
TokenErrors == {NullString, NotFoundMessage, FetchFailedMessage}

TokenInit ==
    /\ PagesInit
    /\ InitViewer("BCA")
    /\ courseDB = <<CourseDoc("c1", "BCA", "Inactive"), CourseDoc("c2", "MCA", Undefined)>>
    /\ locLog = <<>>
    /\ adminCourses = courseDB
    /\ adminReqs = <<>>
    /\ adminResps = <<>>
    /\ events = 0
    /\ FormInit
    /\ coursesPage = courseDB

\* setCourse
TokenSetCourse(c) ==
    /\ course' = c
    /\ UNCHANGED <<backendVars, adminVars, programme, semester, location, heldSample,
                   loading, error, currentTime, mounted, effectVars, channel, fired, formVars, coursesPage,
                   pagesVars>>
    /\ Rerender

\* setLocation
TokenSetLocation(loc) ==
    /\ location' = loc
    /\ UNCHANGED <<backendVars, adminVars, programme, semester, course, heldSample,
                   loading, error, currentTime, mounted, effectVars, channel, fired, formVars, coursesPage,
                   pagesVars>>
    /\ Rerender

\* The semester parameter read once at mount instead of through useParams:
\* its change renders nothing anew.
TokenSetSemester_ReadOnce(sem) ==
    /\ semester' = sem
    /\ UNCHANGED <<backendVars, adminVars, programme, course, location, heldSample,
                   loading, error, currentTime, mounted, effectVars, channel, fired,
                   shown, formVars, coursesPage,
                   pagesVars>>

\* The semester route parameter changes.
TokenSetSemester(sem) ==
    /\ semester' = sem
    /\ UNCHANGED <<backendVars, adminVars, programme, course, location, heldSample,
                   loading, error, currentTime, mounted, effectVars, channel, fired, formVars, coursesPage,
                   pagesVars>>
    /\ Rerender

\* setLoading
TokenSetLoading(ld) ==
    /\ loading' = ld
    /\ UNCHANGED <<backendVars, adminVars, programme, semester, course, location,
                   heldSample, error, currentTime, mounted, effectVars, channel, fired, formVars, coursesPage,
                   pagesVars>>
    /\ Rerender

\* setError
TokenSetError(err) ==
    /\ error' = err
    /\ UNCHANGED <<backendVars, adminVars, programme, semester, course, location,
                   heldSample, loading, currentTime, mounted, effectVars, channel, fired, formVars, coursesPage,
                   pagesVars>>
    /\ Rerender

TokenNext ==
    \/ \E c \in TokenCourses : TokenSetCourse(c)
    \/ \E loc \in TokenLocations : TokenSetLocation(loc)
    \/ \E sem \in SemesterParams : TokenSetSemester(sem)
    \/ \E ld \in BOOLEAN : TokenSetLoading(ld)
    \/ \E err \in TokenErrors : TokenSetError(err)

TokenSpec == TokenInit /\ [][TokenNext]_vars

----------------------------------------------------------------------------
(* Students: createStudent and deleteStudent of studentService, one action *)
(* per request the call awaits, and the Students page's import and delete  *)

MaxCalls == 2

AbcIds == {1, 2}
Emails == {"a@x", "b@x", "c@x"}
StudentInputs == {[ABC_ID |-> a, Email |-> e] : a \in AbcIds, e \in Emails}
ImportSheets == {<<d>> : d \in StudentInputs} \cup
                {<<d1, d2>> : d1 \in StudentInputs, d2 \in StudentInputs}

\* A call and what it holds: createStudent its argument, deleteStudent the
\* id and, once read, the email of the document.
NoData == [ABC_ID |-> 0, Email |-> ""]
CreateCall(data) == [kind |-> "create", data |-> data, id |-> 0, email |-> "",
                     pc |-> "checkAbcId"]
DeleteCall(id) == [kind |-> "delete", data |-> NoData, id |-> id, email |-> "",
                   pc |-> "getDocument"]
IsCreate(call) == call.kind = "create"

\* handleFileUpload's validation of a row against the page's student list.
RowIsValid(row) ==
    /\ ~\E i \in 1..Len(students) : students[i].ABC_ID = row.ABC_ID
    /\ ~\E i \in 1..Len(students) : students[i].Email = row.Email

ValidRows(sheet) == SelectSeq(sheet, RowIsValid)

\* handleFileUpload and handleImportConfirm up to the await: createStudent
\* is called for every valid row, all calls running together.
ImportConfirm(sheet) ==
    /\ ~importing
    /\ calls = <<>>
    /\ ValidRows(sheet) # <<>>
    /\ Len(ValidRows(sheet)) <= MaxCalls
    /\ calls' = [i \in 1..Len(ValidRows(sheet)) |-> CreateCall(ValidRows(sheet)[i])]
    /\ importing' = TRUE
    /\ UNCHANGED <<notStudentVars, studentDB, authUsers, students>>

\* createStudent: the listDocuments that looks for the ABC_ID, and the test
\* of its total.
CheckAbcId(c) ==
    /\ c \in 1..Len(calls)
    /\ calls[c].pc = "checkAbcId"
    /\ calls' = [calls EXCEPT ![c].pc =
                    IF \E i \in 1..Len(studentDB) : studentDB[i].ABC_ID = calls[c].data.ABC_ID
                    THEN "failed" ELSE "checkEmail"]
    /\ UNCHANGED <<notStudentVars, studentDB, authUsers, students, importing>>

\* createStudent: the listDocuments that looks for the Email, and the test of
\* its total.
CheckEmail(c) ==
    /\ c \in 1..Len(calls)
    /\ calls[c].pc = "checkEmail"
    /\ calls' = [calls EXCEPT ![c].pc =
                    IF \E i \in 1..Len(studentDB) : studentDB[i].Email = calls[c].data.Email
                    THEN "failed" ELSE "createDocument"]
    /\ UNCHANGED <<notStudentVars, studentDB, authUsers, students, importing>>

\* createStudent: createDocument with ID.unique() (the number of the call).
CreateDocument(c) ==
    /\ c \in 1..Len(calls)
    /\ calls[c].pc = "createDocument"
    /\ studentDB' = Append(studentDB, StudentDoc(c, calls[c].data))
    /\ calls' = [calls EXCEPT ![c].pc = "linkUser"]
    /\ UNCHANGED <<notStudentVars, authUsers, students, importing>>

\* createStudent: the inner try (getUserIdByEmail, createUserForStudent,
\* updateDocument), whose failure is only logged.
LinkUser(c, ok) ==
    /\ c \in 1..Len(calls)
    /\ calls[c].pc = "linkUser"
    /\ authUsers' = IF ok THEN authUsers \cup {calls[c].data.Email} ELSE authUsers
    /\ calls' = [calls EXCEPT ![c].pc = "done"]
    /\ UNCHANGED <<notStudentVars, studentDB, students, importing>>

\* handleImportConfirm after its await: Promise.all rejects with the first
\* rejected createStudent (the catch block shows the message), and resolves
\* when all have resolved (the new students join the list).
ImportSettles ==
    /\ importing
    /\ LET creations == {c \in 1..Len(calls) : IsCreate(calls[c])}
           failed == \E c \in creations : calls[c].pc = "failed"
           allDone == \A c \in creations : calls[c].pc = "done"
           newStudents == [c \in 1..Cardinality(creations) |-> StudentDoc(c, calls[c].data)]
       IN /\ failed \/ allDone
          /\ students' = IF failed THEN students ELSE newStudents \o students
    /\ importing' = FALSE
    /\ UNCHANGED <<notStudentVars, studentDB, authUsers, calls>>

\* Students page handleDelete, the confirm accepted: deleteStudent is called.
DeleteClick(id) ==
    /\ Len(calls) < MaxCalls
    /\ \E i \in 1..Len(students) : students[i].id = id
    /\ calls' = Append(calls, DeleteCall(id))
    /\ UNCHANGED <<notStudentVars, studentDB, authUsers, students, importing>>

\* deleteStudent: getDocument, which rejects when the document is gone.
GetDocument(c) ==
    /\ c \in 1..Len(calls)
    /\ calls[c].pc = "getDocument"
    /\ calls' = IF HasDoc(studentDB, calls[c].id)
                THEN [calls EXCEPT ![c].pc = "deleteUserByEmail",
                                   ![c].email = DocById(studentDB, calls[c].id).Email]
                ELSE [calls EXCEPT ![c].pc = "failed"]
    /\ UNCHANGED <<notStudentVars, studentDB, authUsers, students, importing>>

\* deleteUserByEmail: the function execution deletes the user, or it fails
\* (rejection, empty response, success: false) and the failure is only
\* logged; the call returns either way.
DeleteUserByEmail(c, ok) ==
    /\ c \in 1..Len(calls)
    /\ calls[c].pc = "deleteUserByEmail"
    /\ authUsers' = IF ok THEN authUsers \ {calls[c].email} ELSE authUsers
    /\ calls' = [calls EXCEPT ![c].pc = "deleteDocument"]
    /\ UNCHANGED <<notStudentVars, studentDB, students, importing>>

\* deleteStudent: deleteDocument, then handleDelete's
\* setStudents(prev => prev.filter(s => s.$id !== studentId)).
DeleteDocument(c) ==
    /\ c \in 1..Len(calls)
    /\ calls[c].pc = "deleteDocument"
    /\ IF HasDoc(studentDB, calls[c].id)
       THEN /\ studentDB' = WithoutDoc(studentDB, calls[c].id)
            /\ students' = WithoutDoc(students, calls[c].id)
            /\ calls' = [calls EXCEPT ![c].pc = "done"]
       ELSE /\ calls' = [calls EXCEPT ![c].pc = "failed"]
            /\ UNCHANGED <<studentDB, students>>
    /\ UNCHANGED <<notStudentVars, authUsers, importing>>

\* A request of the call is rejected by the backend (network, permissions):
\* the call throws.
RequestRejected(c) ==
    /\ c \in 1..Len(calls)
    /\ calls[c].pc \in {"checkAbcId", "checkEmail", "createDocument",
                        "getDocument", "deleteDocument"}
    /\ calls' = [calls EXCEPT ![c].pc = "failed"]
    /\ UNCHANGED <<notStudentVars, studentDB, authUsers, students, importing>>

StudentNext ==
    \/ \E sheet \in ImportSheets : ImportConfirm(sheet)
    \/ \E c \in 1..MaxCalls : CheckAbcId(c)
    \/ \E c \in 1..MaxCalls : CheckEmail(c)
    \/ \E c \in 1..MaxCalls : CreateDocument(c)
    \/ \E c \in 1..MaxCalls, ok \in BOOLEAN : LinkUser(c, ok)
    \/ ImportSettles
    \/ \E id \in 0..MaxCalls : DeleteClick(id)
    \/ \E c \in 1..MaxCalls : GetDocument(c)
    \/ \E c \in 1..MaxCalls, ok \in BOOLEAN : DeleteUserByEmail(c, ok)
    \/ \E c \in 1..MaxCalls : DeleteDocument(c)
    \/ \E c \in 1..MaxCalls : RequestRejected(c)

StudentSpec == Init /\ [][StudentNext]_vars

----------------------------------------------------------------------------
(* Attendance records page: the bulk add *)

MaxSubmits == 2


\* useMemo dailyRecords: the students of the local records of the selected date.
dailyRecords == {st \in BulkStudents : attendanceRecords[<<st, selectedDate>>] > 0}

\* useMemo studentsForBulkAdd: the course's active students without a record
\* among dailyRecords.
studentsForBulkAdd ==
    IF bulkCourseId = NoCourseId THEN {} ELSE BulkStudents \ dailyRecords

\* The keys of studentStatuses: the effect on studentsForBulkAdd sets one
\* entry per student of it, and handleBulkStatusChange changes values only.
studentStatuses == studentsForBulkAdd

OpenBulkModal ==
    /\ ~isBulkModalOpen
    /\ bulkCourseId' = NoCourseId
    /\ isBulkModalOpen' = TRUE
    /\ UNCHANGED <<notAttendanceVars, attendanceDB, attendanceRecords, selectedDate,
                   bulkSubmits>>

\* The course is chosen in the modal (and the location captured).
SelectBulkCourse ==
    /\ isBulkModalOpen
    /\ bulkCourseId = NoCourseId
    /\ bulkCourseId' = BulkCourse
    /\ UNCHANGED <<notAttendanceVars, attendanceDB, attendanceRecords, selectedDate,
                   isBulkModalOpen, bulkSubmits>>

\* DayPicker onSelect.
SelectDate(d) ==
    /\ ~isBulkModalOpen
    /\ d # selectedDate
    /\ selectedDate' = d
    /\ UNCHANGED <<notAttendanceVars, attendanceDB, attendanceRecords, bulkCourseId,
                   isBulkModalOpen, bulkSubmits>>

\* handleBulkSubmit up to its await: 'Save Attendance' is clicked. With no
\* record to create the modal closes; otherwise createAttendance is called
\* for every entry of studentStatuses, with the selected date.
BulkSubmitClick ==
    /\ isBulkModalOpen
    /\ bulkCourseId # NoCourseId
    /\ Len(bulkSubmits) < MaxSubmits
    /\ IF studentStatuses = {}
       THEN /\ isBulkModalOpen' = FALSE
            /\ UNCHANGED bulkSubmits
       ELSE /\ bulkSubmits' = Append(bulkSubmits,
                                  [students |-> studentStatuses, date |-> selectedDate,
                                   pc |-> "pending"])
            /\ UNCHANGED isBulkModalOpen
    /\ UNCHANGED <<notAttendanceVars, attendanceDB, attendanceRecords, selectedDate,
                   bulkCourseId>>

\* createAttendance on the backend: one more record for each student in `made`.
WithRecords(db, made, date) ==
    [k \in BulkStudents \X Dates |->
        IF k[1] \in made /\ k[2] = date THEN db[k] + 1 ELSE db[k]]

\* Every createAttendance of the submit resolves: the new records join the
\* local list and the modal closes.
BulkSubmitReturns(i) ==
    /\ i \in 1..Len(bulkSubmits)
    /\ bulkSubmits[i].pc = "pending"
    /\ attendanceDB' = WithRecords(attendanceDB, bulkSubmits[i].students, bulkSubmits[i].date)
    /\ attendanceRecords' =
           WithRecords(attendanceRecords, bulkSubmits[i].students, bulkSubmits[i].date)
    /\ isBulkModalOpen' = FALSE
    /\ bulkSubmits' = [bulkSubmits EXCEPT ![i].pc = "done"]
    /\ UNCHANGED <<notAttendanceVars, selectedDate, bulkCourseId>>

\* One createAttendance of the submit rejects, the others (`made`) having
\* created their records or not: the catch block shows the error, the local
\* list and the modal stay as they are.
BulkSubmitFails(i, made) ==
    /\ i \in 1..Len(bulkSubmits)
    /\ bulkSubmits[i].pc = "pending"
    /\ made \subseteq bulkSubmits[i].students
    /\ made # bulkSubmits[i].students
    /\ attendanceDB' = WithRecords(attendanceDB, made, bulkSubmits[i].date)
    /\ bulkSubmits' = [bulkSubmits EXCEPT ![i].pc = "failed"]
    /\ UNCHANGED <<notAttendanceVars, attendanceRecords, selectedDate, bulkCourseId,
                   isBulkModalOpen>>

AttendanceNext ==
    \/ OpenBulkModal
    \/ SelectBulkCourse
    \/ \E d \in Dates : SelectDate(d)
    \/ BulkSubmitClick
    \/ \E i \in 1..MaxSubmits : BulkSubmitReturns(i)
    \/ \E i \in 1..MaxSubmits, made \in SUBSET BulkStudents : BulkSubmitFails(i, made)

AttendanceSpec == Init /\ [][AttendanceNext]_vars

----------------------------------------------------------------------------
(* Courses page: the spreadsheet import *)

MaxRows == 2
MaxImports == 2

\* The imports confirmed so far, and the calls of import n.
ImportsMade == Cardinality({addCourseCalls[c].import : c \in 1..Len(addCourseCalls)})
CallsOf(n) == {c \in 1..Len(addCourseCalls) : addCourseCalls[c].import = n}

\* handleFileUpload: a sheet with n valid rows is read, and the import modal
\* opens.
CourseFileUpload(n) ==
    /\ importModal = "closed"
    /\ importData' = n
    /\ importModal' = "open"
    /\ UNCHANGED <<notImportVars, addCourseCalls, coursesAdded>>

\* handleImportConfirm up to its await: addCourse is called for every valid
\* row.
CourseImportConfirm ==
    /\ importModal = "open"
    /\ importData > 0
    /\ ImportsMade < MaxImports
    /\ addCourseCalls' = addCourseCalls \o
           [i \in 1..importData |-> [import |-> ImportsMade + 1, pc |-> "pending"]]
    /\ importModal' = "awaiting"
    /\ UNCHANGED <<notImportVars, importData, coursesAdded>>

\* addCourse: the backend creates the course, or rejects.
AddCourseAnswered(c, ok) ==
    /\ c \in 1..Len(addCourseCalls)
    /\ addCourseCalls[c].pc = "pending"
    /\ addCourseCalls' = [addCourseCalls EXCEPT ![c].pc = IF ok THEN "created" ELSE "rejected"]
    /\ UNCHANGED <<notImportVars, importData, importModal, coursesAdded>>

\* handleImportConfirm after its await. Promise.all resolves when every call
\* has: the new courses join the list and the modal closes. It rejects with
\* the first rejected call: the catch block shows the message, nothing else.
CourseImportSettles ==
    /\ importModal = "awaiting"
    /\ LET mine == CallsOf(ImportsMade)
       IN \/ /\ \A c \in mine : addCourseCalls[c].pc = "created"
             /\ coursesAdded' = coursesAdded \cup mine
             /\ importModal' = "closed"
          \/ /\ \E c \in mine : addCourseCalls[c].pc = "rejected"
             /\ importModal' = "open"
             /\ UNCHANGED coursesAdded
    /\ UNCHANGED <<notImportVars, importData, addCourseCalls>>

\* closeModal: 'Cancel' in the import modal.
CourseImportCancel ==
    /\ importModal = "open"
    /\ importModal' = "closed"
    /\ UNCHANGED <<notImportVars, importData, addCourseCalls, coursesAdded>>

CourseImportNext ==
    \/ \E n \in 0..MaxRows : CourseFileUpload(n)
    \/ CourseImportConfirm
    \/ \E c \in 1..(MaxRows * MaxImports), ok \in BOOLEAN : AddCourseAnswered(c, ok)
    \/ CourseImportSettles
    \/ CourseImportCancel

CourseImportSpec == Init /\ [][CourseImportNext]_vars

----------------------------------------------------------------------------
(* Holidays page *)

MaxHolidayCalls == 2

HolidayDates == {1, 2}
\* What new Date('') and new Date('garbage') give.
InvalidDate == 0
FormDates == HolidayDates \cup {InvalidDate}

\* A row of the spreadsheet that handleFileUpload found valid: both dates parse.
HolidayRows == {[Date_from |-> f, Date_to |-> t] : f \in HolidayDates, t \in HolidayDates}
HolidaySheets == {<<r>> : r \in HolidayRows} \cup
                 {<<r1, r2>> : r1 \in HolidayRows, r2 \in {[Date_from |-> 1, Date_to |-> 1]}}

\* .sort((a, b) => new Date(a.Date_from) - new Date(b.Date_from)): a stable
\* sort by ascending start date.
Last(list) == list[Len(list)]
Front(list) == SubSeq(list, 1, Len(list) - 1)

RECURSIVE InsertByDateFrom(_, _)
InsertByDateFrom(sorted, h) ==
    IF sorted = <<>> THEN <<h>>
    ELSE IF Last(sorted).Date_from <= h.Date_from THEN Append(sorted, h)
    ELSE Append(InsertByDateFrom(Front(sorted), h), Last(sorted))

RECURSIVE SortByDateFrom(_)
SortByDateFrom(list) ==
    IF list = <<>> THEN <<>>
    ELSE InsertByDateFrom(SortByDateFrom(Front(list)), Last(list))

\* The id the backend gives to the document of row r of call c, and the ids
\* a holiday of the list can have.
NewHolidayId(c, r) == 10 * c + r
HolidayIds == {1, 2} \cup {NewHolidayId(c, r) : c \in 1..MaxHolidayCalls, r \in 1..2}

NewHolidays(c) ==
    [r \in 1..Len(holidayCalls[c].rows) |->
        HolidayDoc(NewHolidayId(c, r), holidayCalls[c].rows[r].Date_from,
                   holidayCalls[c].rows[r].Date_to)]

\* fetchData: the fetched holidays are sorted and shown, or the error is.
HolidaysFetched(ok) ==
    /\ holidaysPage = "loading"
    /\ IF ok
       THEN holidays' = SortByDateFrom(holidayDB) /\ holidaysPage' = "ready"
       ELSE holidaysPage' = "error" /\ UNCHANGED holidays
    /\ UNCHANGED <<notHolidayVars, holidayDB, holidayCalls>>

\* handleFormSubmit up to its await, for the add form (id = 0) and the edit
\* form of holiday id. An end before the start is refused; an invalid date
\* makes toISOString throw, which the catch block reports.
HolidayFormSubmit(id, from, to) ==
    /\ holidaysPage = "ready"
    /\ id = 0 \/ HasDoc(holidays, id)
    /\ Len(holidayCalls) < MaxHolidayCalls
    /\ ~(from # InvalidDate /\ to # InvalidDate /\ to < from)
    /\ from # InvalidDate /\ to # InvalidDate
    /\ holidayCalls' = Append(holidayCalls,
           [kind |-> IF id = 0 THEN "add" ELSE "edit", id |-> id,
            rows |-> <<[Date_from |-> from, Date_to |-> to]>>, pc |-> "pending"])
    /\ UNCHANGED <<notHolidayVars, holidayDB, holidays, holidaysPage>>

\* handleDelete up to its await, the confirm accepted.
HolidayDeleteClick(id) ==
    /\ holidaysPage = "ready"
    /\ HasDoc(holidays, id)
    /\ Len(holidayCalls) < MaxHolidayCalls
    /\ holidayCalls' = Append(holidayCalls,
           [kind |-> "delete", id |-> id, rows |-> <<>>, pc |-> "pending"])
    /\ UNCHANGED <<notHolidayVars, holidayDB, holidays, holidaysPage>>

\* handleImportConfirm up to its await: addHoliday for every valid row.
HolidayImportConfirm(sheet) ==
    /\ holidaysPage = "ready"
    /\ Len(holidayCalls) < MaxHolidayCalls
    /\ holidayCalls' = Append(holidayCalls,
           [kind |-> "import", id |-> 0, rows |-> sheet, pc |-> "pending"])
    /\ UNCHANGED <<notHolidayVars, holidayDB, holidays, holidaysPage>>

HolidayCallAnswered_NoSort(c) ==
    /\ c \in 1..Len(holidayCalls)
    /\ holidayCalls[c].pc = "pending"
    /\ holidayCalls[c].kind \in {"add", "import"}
    /\ holidayDB' = holidayDB \o NewHolidays(c)
    /\ holidays' = holidays \o NewHolidays(c)
    /\ holidayCalls' = [holidayCalls EXCEPT ![c].pc = "done"]
    /\ UNCHANGED <<notHolidayVars, holidaysPage>>

\* The backend answers a request and the handler goes on after its await:
\* setHolidays with the new, updated or removed holiday.
HolidayCallAnswered(c) ==
    /\ c \in 1..Len(holidayCalls)
    /\ holidayCalls[c].pc = "pending"
    /\ LET call == holidayCalls[c]
           updated == HolidayDoc(call.id, call.rows[1].Date_from, call.rows[1].Date_to)
       IN CASE call.kind \in {"add", "import"} ->
                 /\ holidayDB' = holidayDB \o NewHolidays(c)
                 /\ holidays' = SortByDateFrom(holidays \o NewHolidays(c))
            [] call.kind = "edit" ->
                 /\ HasDoc(holidayDB, call.id)
                 /\ holidayDB' = ReplaceDoc(holidayDB, call.id, updated)
                 /\ holidays' = SortByDateFrom(ReplaceDoc(holidays, call.id, updated))
            [] call.kind = "delete" ->
                 /\ HasDoc(holidayDB, call.id)
                 /\ holidayDB' = WithoutDoc(holidayDB, call.id)
                 /\ holidays' = WithoutDoc(holidays, call.id)
    /\ holidayCalls' = [holidayCalls EXCEPT ![c].pc = "done"]
    /\ UNCHANGED <<notHolidayVars, holidaysPage>>

\* The backend rejects a request: the catch block shows the message.
HolidayCallRejected(c) ==
    /\ c \in 1..Len(holidayCalls)
    /\ holidayCalls[c].pc = "pending"
    /\ holidayCalls' = [holidayCalls EXCEPT ![c].pc = "failed"]
    /\ UNCHANGED <<notHolidayVars, holidayDB, holidays, holidaysPage>>

HolidayNext ==
    \/ \E ok \in BOOLEAN : HolidaysFetched(ok)
    \/ \E id \in {0} \cup HolidayIds, from \in FormDates, to \in FormDates :
           HolidayFormSubmit(id, from, to)
    \/ \E id \in HolidayIds : HolidayDeleteClick(id)
    \/ \E sheet \in HolidaySheets : HolidayImportConfirm(sheet)
    \/ \E c \in 1..MaxHolidayCalls : HolidayCallAnswered(c)
    \/ \E c \in 1..MaxHolidayCalls : HolidayCallRejected(c)

HolidaySpec == Init /\ [][HolidayNext]_vars

----------------------------------------------------------------------------
(* Properties *)

PersistedLinkStatus(id) == DocById(courseDB, id).LinkStatus

CourseEventPending(id) ==
    \E i \in 1..Len(channel) : channel[i].type = "course.update" /\ channel[i].id = id

LocationEventPending ==
    \E i \in 1..Len(channel) : channel[i].type = "location.create"

NoRequeryInFlight == requeries = [pending |-> 0, served |-> EmptyBag]

\* C1: in no reachable state does the viewer render a QR token for a course
\* whose persisted LinkStatus is Inactive.
C1_NoTokenWhilePersistedInactive ==
    qrRendered => PersistedLinkStatus(course.id) # "Inactive"

\* C2: a held course whose LinkStatus is not 'Active' (Inactive, missing, any
\* other value), or no held course, gives the empty payload and no QR element.
C2_NotActiveNoToken ==
    (course = JsNull \/ course.LinkStatus # "Active")
        => (qrValue = EmptyString /\ ~qrRendered)

C2_Witness ==
    /\ course # JsNull
    /\ course.LinkStatus = Undefined
    /\ Display = "InactivePlaceholder"
    /\ Truthy(location.latitude)
    /\ Truthy(location.longitude)

\* C3: with an Active course and a held location sample, the payload decodes
\* to the course identifier, an integer semester, a timestamp, and the
\* sample's latitude and longitude.
C3_PayloadCarriesSample ==
    (qrRendered /\ heldSample # 0)
        => /\ qrValue # EmptyString
           /\ qrValue[1].courseId = course.id
           /\ qrValue[1].semester = ParseInt(semester)
           /\ qrValue[1].semester # JsNull
           /\ qrValue[1].dateTime = NowISOString
           /\ qrValue[1].location = [latitude |-> locLog[heldSample].Latitude,
                                     longitude |-> locLog[heldSample].Longitude]

\* The viewer shows the inactive placeholder of the course effect run r is
\* subscribed to, and the notification of a toggle of that course to Active is
\* on its way.
ActiveNoticePending(r) ==
    /\ r <= Len(runs)
    /\ ~runs[r].cleaned
    /\ <<r, "course">> \in subs
    /\ Display = "InactivePlaceholder"
    /\ course.id = runs[r].foundId
    /\ \E i \in 1..Len(channel) :
          /\ channel[i].type = "course.update"
          /\ channel[i].id = course.id
          /\ channel[i].payload.LinkStatus = "Active"

TokenShownOrClosed(r) == qrRendered \/ (r <= Len(runs) /\ runs[r].cleaned)

\* C4: when the viewer shows the inactive placeholder and the notification of
\* a toggle to Active is on its way to the viewer's course subscription, the
\* viewer eventually shows the token (unless that effect run is cleaned up).
C4_ToggleActiveShowsToken ==
    \A r \in 1..MaxRuns : ActiveNoticePending(r) ~> TokenShownOrClosed(r)

\* C5: once the viewer has left Loading without error and no course-update
\* notification for its course is undelivered, what it displays agrees with
\* the persisted LinkStatus of the course.
C5_DisplayAgreesWithPersisted ==
    (Display \in {"ActiveDisplaying", "InactivePlaceholder"}
        /\ ~CourseEventPending(course.id))
        => ((course.LinkStatus = "Active") <=> (PersistedLinkStatus(course.id) = "Active"))

\* C6: when the viewer shows a token, samples have been published, no creation
\* event is undelivered and no re-query is in flight, the sample the viewer
\* holds is the most recently created one.
C6_NewestSampleWins ==
    (qrRendered /\ locLog # <<>> /\ ~LocationEventPending /\ NoRequeryInFlight)
        => heldSample = Len(locLog)

\* C7: no completion of a re-query changes the sample the viewer holds to an
\* older one.
C7_LocationMonotonic ==
    [][(\E n \in 0..MaxEvents : ResolveRequery(n)) => heldSample' >= heldSample]_vars

\* C8: no callback of a subscription of a cleaned-up effect run is invoked.
C8_NoCallbackAfterTeardown ==
    \A s \in fired : ~runs[s[1]].cleaned

\* C9: a mounted viewer holds at most one course subscription, one location
\* subscription and one timer; after the unmount none is registered.
C9_AtMostOneOfEach ==
    /\ Cardinality({s \in subs : s[2] = "course"}) <= 1
    /\ Cardinality({s \in subs : s[2] = "location"}) <= 1
    /\ Cardinality(timers) <= 1
    /\ ~mounted => (subs = {} /\ timers = {})

\* The find of effect run r returned no course.
NoCourseFound(r) == runs[r].notFound

C11_ErrorIsTerminal ==
    [][(Display = "Error" /\ mounted') => Display' = "Error"]_vars

\* C12 as stated: while the viewer displays Loading or Error, the render
\* computes no non-empty payload.
C12_NoPayloadComputedOutsideActive ==
    Display \in {"Loading", "Error"} => qrValue = EmptyString

\* C12: while loading is set or an error is held the render shows no token,
\* and a token is shown only by a mounted viewer that is not loading, holds
\* no error, and holds a course whose LinkStatus is Active.
C12_NoTokenShownOutsideActive ==
    /\ (loading \/ error # NullString) => shown = EmptyString
    /\ shown # EmptyString =>
           (mounted /\ ~loading /\ error = NullString
            /\ course # JsNull /\ course.LinkStatus = "Active")

C12_Witness ==
    /\ Display = "Error"
    /\ qrValue # EmptyString
    /\ shown = EmptyString

DisplayByFlag(c) ==
    IF c.LinkStatus = "Active" THEN "ActiveDisplaying" ELSE "InactivePlaceholder"

\* C13 as stated: once the latest run's course fetch has completed with a
\* matching course (its course subscription is registered) and no error is
\* held, the session leaves Loading only for the display the course's flag
\* calls for.
C13_CourseFetchDecides ==
    [][LET r == Len(runs)
       IN (/\ runs[r].unsubscribeCourse
           /\ Display = "Loading"
           /\ error = NullString
           /\ mounted'
           /\ Display' # "Loading") => Display' = DisplayByFlag(course')]_vars

\* C13: the completion of the course fetch leaves the session in Loading; a
\* session that leaves Loading with no error held holds a course and shows
\* Active-Displaying if that course's LinkStatus is Active, the placeholder
\* otherwise.
C13_LoadedShowsByFlag ==
    [][/\ (\E r \in 1..MaxRuns : ResolveFetchCourses(r)) => loading' = loading
       /\ (Display = "Loading" /\ mounted' /\ ~loading' /\ error' = NullString)
              => (course' # JsNull /\ Display' = DisplayByFlag(course'))]_vars

C13_Witness ==
    /\ \E r \in 1..Len(runs) : runs[r].pc = "done" /\ runs[r].unsubscribeCourse
                               /\ runs[r].unsubscribeLocation
    /\ error = NullString
    /\ Display = "InactivePlaceholder"
    /\ course.LinkStatus = Undefined

\* Every sample of the log is still in the log after the step, with the
\* coordinates it had.
SamplesKept ==
    \A i \in 1..Len(locLog) : \E j \in 1..Len(locLog') : locLog'[j] = locLog[i]

\* C14: the location log is append-only: no step of the location form
\* removes a sample or changes a sample's coordinates.
C14_LogAppendOnly == [][SamplesKept]_vars

\* A submit follows a completed submit (or the form's first load) with no
\* Edit click since: the form is in add mode.
InAddMode == editingLocationId = NullId

\* C14: a submit of the form in add mode creates one new sample and keeps
\* every existing one; a completed submit always leaves the form in add mode,
\* so only a submit after an Edit click overwrites, and only Delete removes.
C14_AddModeAppends ==
    [][/\ ((\E loc \in LocInputs : PublishLocation(loc)) /\ InAddMode)
              => (Len(locLog') = Len(locLog) + 1 /\ SamplesKept)
       /\ ((\E loc \in LocInputs : PublishLocation(loc)) /\ locLog' # locLog)
              => editingLocationId' = NullId
       /\ ~SamplesKept => \/ \E id \in 1..MaxEvents : LocationDelete(id)
                          \/ (~InAddMode /\ \E loc \in LocInputs : PublishLocation(loc))]_vars

C14_Witness ==
    /\ Len(locLog) = 2
    /\ events = 3
    /\ editingLocationId = NullId
    /\ locLog[1] = LocationDoc(1, [Latitude |-> Num(26), Longitude |-> Num(91)])
    /\ locLog[2] = LocationDoc(2, [Latitude |-> Num(0), Longitude |-> Num(77)])

OtherFields == {"Programme", "Duration", "Status"}

\* C15: when the backend applies a toggle, every persisted field of the
\* course other than LinkStatus keeps the value it had just before, also
\* after another session's edit of the course.
C15_ToggleChangesOnlyLinkStatus ==
    [][\A i \in 1..MaxEvents :
          ServerUpdateCourse(i) =>
              \A f \in OtherFields :
                  DocById(courseDB', adminReqs[i].id)[f] = DocById(courseDB, adminReqs[i].id)[f]]_vars

\* C17: the location member of a generated payload is null exactly when the
\* viewer holds no location sample, and a held sample is embedded as its
\* latitude/longitude pair whatever its coordinates.
C17_LocationNullIffNoSample ==
    qrValue # EmptyString =>
        /\ (qrValue[1].location = JsNull) <=> (heldSample = 0)
        /\ heldSample # 0 => qrValue[1].location = SampleLocation(heldSample)

\* C18: every location-creation event the socket delivers to a mounted
\* viewer with a location subscription triggers exactly one re-query of the
\* latest location.
C18_OneRequeryPerEvent ==
    [][(/\ DeliverEvent
        /\ Head(channel).type = "location.create"
        /\ mounted
        /\ LocationSubs # {}) => requeries'.pending = requeries.pending + 1]_vars

\* The semester parameter has no leading integer.
Unparsable(sem) == ParseInt(sem) = NaN

\* C19: with an Active course a payload is generated whatever the semester
\* parameter: an unparsable one gives the semester member null (NaN
\* serialised), one with a leading integer gives that integer, and the
\* parameter decides nothing about the display: a loaded viewer holding no
\* error shows the token.
C19_UnparsableSemesterStillPayload ==
    (course # JsNull /\ course.LinkStatus = "Active") =>
        /\ qrValue # EmptyString
        /\ Unparsable(semester) => qrValue[1].semester = JsNull
        /\ semester = <<"4", "x">> => qrValue[1].semester = Num(4)
        /\ (mounted /\ ~loading /\ error = NullString) => (qrRendered /\ shown = qrValue)

C19_Witness ==
    /\ semester = <<"a">>
    /\ qrRendered
    /\ shown # EmptyString
    /\ shown[1].semester = JsNull

\* What the viewer reads on the Error display: the <p> holding {error}.
ErrorText == IF Display = "Error" THEN error ELSE NullString

\* C20 as stated: the Error display reads the same whatever its cause, a
\* failed fetch or a course not found.
C20_ErrorCausesIndistinguishable ==
    Display = "Error" => ErrorText = NotFoundMessage

\* C20: a rejected initial fetch leaves a mounted viewer on the Error display
\* with the fetch-failure text, which is not the not-found text, and every
\* Error display shows one of the two texts and no token.
C20_FetchFailureShowsError ==
    /\ [][\A r \in 1..MaxRuns :
             (RejectFetch(r) /\ mounted) =>
                 /\ Display' = "Error"
                 /\ ErrorText' = FetchFailedMessage
                 /\ ErrorText' # NotFoundMessage]_vars
    /\ [](Display = "Error" => /\ ErrorText \in {NotFoundMessage, FetchFailedMessage}
                               /\ shown = EmptyString)

C20_Witness ==
    /\ \E r \in 1..Len(runs) : /\ runs[r].pc = "done"
                               /\ runs[r].unsubscribeCourse
                               /\ ~runs[r].unsubscribeLocation
    /\ Display = "Error"
    /\ ErrorText = FetchFailedMessage
    /\ qrValue # EmptyString

CourseMatchesRoute == ToLowerCase(course.Programme) = DecodedProgramme(programme)

\* C22: a viewer that is neither loading nor in error holds the course that
\* matches the current programme parameter; no result of an earlier
\* parameter's load becomes the displayed course or ends Loading.
C22_HeldCourseMatchesRoute ==
    Display \in {"ActiveDisplaying", "InactivePlaceholder"} => CourseMatchesRoute

\* C23: the viewer opened by 'Generate QR' on a card, once its initial load
\* is over, holds the course of that card.
C23_LinkRoundTrip ==
    (selectedCourse # JsNull /\ mounted /\ runs[1].pc = "done")
        => (course # JsNull /\ course.id = selectedCourse.id)

\* C24: a mounted viewer that is loading eventually is not loading any more
\* (or has been closed), whichever way its fetches end: course found, not
\* found, or a fetch rejected.
C24_EventuallyLeavesLoading ==
    (mounted /\ loading) ~> (~loading \/ ~mounted)

C24_Witness ==
    /\ mounted
    /\ ~loading
    /\ Len(runs) = 2
    /\ runs[1].pc = "done" /\ runs[1].notFound
    /\ runs[2].pc = "done" /\ runs[2].unsubscribeLocation

\* C25: no two student documents share an ABC_ID, and no two share an Email.
C25_UniqueAbcIdAndEmail ==
    \A i, j \in 1..Len(studentDB) :
        i # j => /\ studentDB[i].ABC_ID # studentDB[j].ABC_ID
                 /\ studentDB[i].Email # studentDB[j].Email

\* A deleteStudent call that got the student's document, and so its email.
DeleteCalls == {c \in 1..Len(calls) : calls[c].kind = "delete" /\ calls[c].email # ""}

\* C30: a deleteStudent that completed without error has left neither the
\* student's document nor the user of its email; one that failed has left both.
C30_DeleteAllOrNothing ==
    \A c \in DeleteCalls :
        /\ calls[c].pc = "done" =>
              ~HasDoc(studentDB, calls[c].id) /\ calls[c].email \notin authUsers
        /\ calls[c].pc = "failed" =>
              HasDoc(studentDB, calls[c].id) /\ calls[c].email \in authUsers

\* C26: each student has at most one attendance record per date.
C26_OneRecordPerStudentAndDate ==
    \A k \in BulkStudents \X Dates : attendanceDB[k] <= 1

\* The imports that have finished: all but the one handleImportConfirm is
\* still awaiting.
ImportsFinished ==
    IF importModal = "awaiting" THEN 1..(ImportsMade - 1) ELSE 1..ImportsMade

\* C27: every course that a finished import created on the backend is in the
\* page's local course list.
C27_ImportedCoursesAreListed ==
    \A n \in ImportsFinished : \A c \in CallsOf(n) :
        addCourseCalls[c].pc = "created" => c \in coursesAdded

\* C28: every holiday the page has submitted to the backend, by add, edit or
\* import, ends on or after the day it starts.
C28_NoHolidayEndsBeforeItStarts ==
    \A c \in 1..Len(holidayCalls) : \A r \in 1..Len(holidayCalls[c].rows) :
        holidayCalls[c].rows[r].Date_to >= holidayCalls[c].rows[r].Date_from

\* C29: the page's holiday list is in ascending order of start date.
C29_HolidaysSortedByStart ==
    \A i, j \in 1..Len(holidays) :
        i < j => holidays[i].Date_from <= holidays[j].Date_from

\* A holiday added by the form or the import stands before one fetched at
\* the start.
C29_Witness ==
    /\ \E c \in 1..Len(holidayCalls) :
           holidayCalls[c].kind \in {"add", "import"} /\ holidayCalls[c].pc = "done"
    /\ \E i, j \in 1..Len(holidays) :
           i < j /\ holidays[i].id >= 10 /\ holidays[j].id < 10

====
